---- MODULE Spec2Model ----
(***************************************************************************)
(* Shift-report ingestion (Highlighter2): the text-extraction engine of    *)
(* src/src/parser.py, the per-document loop of src/src/main.py and         *)
(* src/app.py, and the ledger merge of src/src/excel_io.py.                *)
(*                                                                         *)
(* A text is a sequence of characters, each character a one-character      *)
(* string ("\n" is the line break).  The regular expressions of parser.py  *)
(* are translated to matchers over such sequences; positions are 1-based   *)
(* here and 0-based in the Python source.                                  *)
(***************************************************************************)
EXTENDS Integers, Sequences, FiniteSets, TLC

VARIABLES
    pc,             \* position of the running call
    full_text,      \* extract_ecs_rows / extract_metadata: the document text
    zone,           \* extract_ecs_rows: the clipped search zone
    matches,        \* extract_ecs_rows: list(_ECS_BASE_RE.finditer(zone))
    i,              \* extract_ecs_rows: number of matches handled so far
    items,          \* extract_ecs_rows: _ITEM_RE.findall(chunk) of the last chunk
    seen,           \* extract_ecs_rows: the seen set of the last chunk
    rows,           \* extract_ecs_rows: the rows list
    normalized,     \* normalize_ecs_base: the value returned
    assumed_year,   \* extract_metadata: its second argument
    supervisor,     \* extract_metadata: local supervisor
    superintendent, \* extract_metadata: local superintendent
    work_date,      \* extract_metadata: DocMetadata.work_date of the result
    docx_paths,     \* App.process: the documents of the batch
    done_docs,      \* App.process: number of documents the loop has handled
    all_new,        \* App.process: the per-document row frames
    errors,         \* App.process: the error counter
    log,            \* App.process: the messages written by write_log
    master_df,      \* the ledger read by read_master
    new_df,         \* the frame handed to append_and_dedup
    updated         \* the frame append_and_dedup returns

rowVars == <<zone, matches, i, items, seen, rows>>
metaVars == <<assumed_year, supervisor, superintendent, work_date>>
batchVars == <<docx_paths, done_docs, all_new, errors, log>>
mergeVars == <<master_df, new_df, updated>>

vars == <<pc, full_text, normalized, rowVars, metaVars, batchVars, mergeVars>>

---------------------------------------------------------------------------
(* Characters                                                              *)

DigitChars == <<"0", "1", "2", "3", "4", "5", "6", "7", "8", "9">>
UpperChars == <<"A", "B", "C", "D", "E", "F", "G", "H", "I", "J", "K", "L", "M",
                "N", "O", "P", "Q", "R", "S", "T", "U", "V", "W", "X", "Y", "Z">>
LowerChars == <<"a", "b", "c", "d", "e", "f", "g", "h", "i", "j", "k", "l", "m",
                "n", "o", "p", "q", "r", "s", "t", "u", "v", "w", "x", "y", "z">>

Range(s) == {s[k] : k \in 1..Len(s)}

DigitSet == Range(DigitChars)
UpperSet == Range(UpperChars)
LowerSet == Range(LowerChars)
LetterSet == UpperSet \cup LowerSet

\* \s of Python's re for the characters of the model's alphabet
SpaceSet == {" ", "\t", "\n", "\r", "\f"}

\* \w : letters, digits and the underscore
WordSet == LetterSet \cup DigitSet \cup {"_"}

\* the curly apostrophe U+2019 of the pattern Today[’']?s, as one character
RSQUO == "rsquo"

UpperOf == [c \in LowerSet |-> UpperChars[CHOOSE k \in 1..26 : LowerChars[k] = c]]

\* str.upper() on one character
upper_char(c) == IF c \in LowerSet THEN UpperOf[c] ELSE c

\* str.upper()
upper(s) == [k \in 1..Len(s) |-> upper_char(s[k])]

Min(S) == CHOOSE x \in S : \A y \in S : x <= y
Max(S) == CHOOSE x \in S : \A y \in S : x >= y

---------------------------------------------------------------------------
(* Regular-expression primitives                                           *)

\* \b at the gap before s[p] (p = Len(s)+1 is the end of the string)
WordBoundary(s, p) ==
    (p > 1 /\ s[p - 1] \in WordSet) # (p <= Len(s) /\ s[p] \in WordSet)

\* a literal at position p under re.IGNORECASE
LitAt(s, p, lit) ==
    /\ p >= 1
    /\ p + Len(lit) - 1 <= Len(s)
    /\ \A k \in 1..Len(lit) : upper_char(s[p + k - 1]) = upper_char(lit[k])

\* greedy \s* from p: the first position at or after p that holds no whitespace
RECURSIVE SkipSpaces(_, _)
SkipSpaces(s, p) ==
    IF p <= Len(s) /\ s[p] \in SpaceSet THEN SkipSpaces(s, p + 1) ELSE p

\* every s[k], from <= k <= to, is in class
AllIn(s, from, to, class) ==
    /\ from >= 1
    /\ to <= Len(s)
    /\ \A k \in from..to : s[k] \in class

---------------------------------------------------------------------------
(* _ECS_BASE_RE                                                            *)
(*   \b(\d)\s*([A-Z]{2,3})\s*[- ]?\s*([0-9A-Z]{2})\s*([A-Z]{2})\b  /i      *)

NoMatch == [ok |-> FALSE]

\* the match at p with n letters in group 2, or NoMatch
ECSMatchWith(s, p, n) ==
    IF ~(p <= Len(s) /\ WordBoundary(s, p) /\ s[p] \in DigitSet) THEN NoMatch
    ELSE
    LET a == SkipSpaces(s, p + 1)                  \* group 2 starts
    IN  IF ~AllIn(s, a, a + n - 1, LetterSet) THEN NoMatch
    ELSE
    LET b0 == SkipSpaces(s, a + n)
        b1 == IF b0 <= Len(s) /\ s[b0] \in {"-", " "} THEN b0 + 1 ELSE b0
        b  == SkipSpaces(s, b1)                    \* group 3 starts
    IN  IF ~AllIn(s, b, b + 1, LetterSet \cup DigitSet) THEN NoMatch
    ELSE
    LET c == SkipSpaces(s, b + 2)                  \* group 4 starts
    IN  IF ~(AllIn(s, c, c + 1, LetterSet) /\ WordBoundary(s, c + 2)) THEN NoMatch
    ELSE [ok |-> TRUE, start |-> p, end |-> c + 1,
          g1 |-> SubSeq(s, p, p),
          g2 |-> SubSeq(s, a, a + n - 1),
          g3 |-> SubSeq(s, b, b + 1),
          g4 |-> SubSeq(s, c, c + 1)]

\* the match at p: {2,3} is greedy, three letters are tried before two
ECSMatchAt(s, p) ==
    LET m3 == ECSMatchWith(s, p, 3)
    IN  IF m3.ok THEN m3 ELSE ECSMatchWith(s, p, 2)

\* _ECS_BASE_RE.finditer(s) from position p: non-overlapping, left to right
RECURSIVE ECSFindIter(_, _)
ECSFindIter(s, p) ==
    IF p > Len(s) THEN <<>>
    ELSE LET m == ECSMatchAt(s, p)
         IN  IF m.ok THEN <<m>> \o ECSFindIter(s, m.end + 1)
             ELSE ECSFindIter(s, p + 1)

\* the groups joined without the .upper() calls
ecs_base_as_written(m) == m.g1 \o m.g2 \o m.g3 \o m.g4

\* f"{m.group(1)}{m.group(2).upper()}{m.group(3).upper()}{m.group(4).upper()}"
ecs_base_of(m) == m.g1 \o upper(m.g2) \o upper(m.g3) \o upper(m.g4)

\* re.sub(r"[ \t]+", " ", s): every run of blanks and tabs becomes one blank
RECURSIVE CollapseBlanks(_)
CollapseBlanks(s) ==
    IF s = <<>> THEN <<>>
    ELSE IF s[1] \in {" ", "\t"}
         THEN IF Len(s) >= 2 /\ s[2] \in {" ", "\t"}
              THEN CollapseBlanks(Tail(s))
              ELSE <<" ">> \o CollapseBlanks(Tail(s))
         ELSE <<s[1]>> \o CollapseBlanks(Tail(s))

\* str.strip()
strip(s) ==
    LET K == {k \in 1..Len(s) : s[k] \notin SpaceSet}
    IN  IF K = {} THEN <<>> ELSE SubSeq(s, Min(K), Max(K))

\* _clean_spaces without the re.sub
strip_only(s) == strip(s)

\* _clean_spaces
clean_spaces(s) == strip(CollapseBlanks(s))

None == [none |-> TRUE]
Some(v) == [none |-> FALSE, value |-> v]

\* _ECS_BASE_RE.search(s): the leftmost match
ECSSearch(s) ==
    LET ms == ECSFindIter(s, 1)
    IN  IF ms = <<>> THEN NoMatch ELSE ms[1]

normalize_ecs_base(raw) ==
    IF raw = <<>> THEN None
    ELSE LET m == ECSSearch(clean_spaces(upper(raw)))
         IN  IF ~m.ok THEN None ELSE Some(ecs_base_of(m))

---------------------------------------------------------------------------
(* _ITEM_RE    \b\d{4}(?:\.\d)?\b                                          *)

\* the last position of the match at p, or 0
ItemMatchEnd(s, p) ==
    IF ~(WordBoundary(s, p) /\ AllIn(s, p, p + 3, DigitSet)) THEN 0
    ELSE IF /\ p + 5 <= Len(s)
            /\ s[p + 4] = "."
            /\ s[p + 5] \in DigitSet
            /\ WordBoundary(s, p + 6)
         THEN p + 5
         ELSE IF WordBoundary(s, p + 4) THEN p + 3 ELSE 0

\* _ITEM_RE.findall(s) from position p
RECURSIVE ItemFindAll(_, _)
ItemFindAll(s, p) ==
    IF p > Len(s) THEN <<>>
    ELSE LET e == ItemMatchEnd(s, p)
         IN  IF e > 0 THEN <<SubSeq(s, p, e)>> \o ItemFindAll(s, e + 1)
             ELSE ItemFindAll(s, p + 1)

---------------------------------------------------------------------------
(* _clip_relevant_zone                                                     *)

\* Today[’']?s\s+Tasks /i matches at p
TodaysTasksAt(t, p) ==
    /\ LitAt(t, p, <<"T", "o", "d", "a", "y">>)
    /\ LET q == IF p + 5 <= Len(t) /\ t[p + 5] \in {RSQUO, "'"} THEN p + 6 ELSE p + 5
       IN  /\ LitAt(t, q, <<"s">>)
           /\ q + 1 <= Len(t)
           /\ t[q + 1] \in SpaceSet
           /\ LitAt(t, SkipSpaces(t, q + 1), <<"T", "a", "s", "k", "s">>)

\* \bManpower\b /i matches at p
ManpowerAt(t, p) ==
    /\ WordBoundary(t, p)
    /\ LitAt(t, p, <<"M", "a", "n", "p", "o", "w", "e", "r">>)
    /\ WordBoundary(t, p + 8)

\* m.start() of a re.search result: the 0-based start of the leftmost match of
\* a set of 1-based match positions, -1 for None
LeftmostStart(S) == IF S = {} THEN -1 ELSE Min(S) - 1

\* the 0-based slice bounds [start, end) of the zone
clip_end(t) ==
    LET m_end == LeftmostStart({p \in 1..Len(t) : ManpowerAt(t, p)})
    IN  IF m_end >= 0 THEN m_end ELSE Len(t)

clip_start(t) ==
    LET m_start == LeftmostStart({p \in 1..Len(t) : TodaysTasksAt(t, p)})
    IN  IF m_start >= 0 THEN m_start ELSE 0

\* t[start:end]
Slice(t, start, end) == SubSeq(t, start + 1, end)

clip_relevant_zone(t) == Slice(t, clip_start(t), clip_end(t))

---------------------------------------------------------------------------
(* extract_ecs_rows                                                        *)

\* zone[chunk_start:chunk_end] of the k-th match (1-based)
chunk_end_mutant(z, ms, k) == Len(z)
chunk_end(z, ms, k) == IF k + 1 <= Len(ms) THEN ms[k + 1].start - 1 ELSE Len(z)

chunk_start(ms, k) == ms[k].end

chunk_of(z, ms, k) == SubSeq(z, chunk_start(ms, k) + 1, chunk_end(z, ms, k))

\* the inner loop without its membership test
RECURSIVE DedupLoopNoTest(_, _, _, _)
DedupLoopNoTest(base, its, n, seen0) ==
    IF n = 0 THEN [seen |-> seen0, out |-> <<>>]
    ELSE LET prev == DedupLoopNoTest(base, its, n - 1, seen0)
         IN  [seen |-> prev.seen \cup {its[n]}, out |-> Append(prev.out, <<base, its[n]>>)]

\* the inner loop over items: (seen, appended rows) after the first n items
RECURSIVE DedupLoop(_, _, _, _)
DedupLoop(base, its, n, seen0) ==
    IF n = 0 THEN [seen |-> seen0, out |-> <<>>]
    ELSE LET prev == DedupLoop(base, its, n - 1, seen0)
             it == its[n]
         IN  IF it \notin prev.seen
             THEN [seen |-> prev.seen \cup {it}, out |-> Append(prev.out, <<base, it>>)]
             ELSE prev

\* seen = set() of every iteration of the outer loop
fresh_seen_mutant(old) == old
fresh_seen(old) == {}

\* the whole function, as the caller sees it
RECURSIVE RowsLoop(_, _, _, _)
RowsLoop(z, ms, k, seen0) ==
    IF k = 0 THEN [seen |-> {}, out |-> <<>>]
    ELSE LET prev == RowsLoop(z, ms, k - 1, seen0)
             r == DedupLoop(ecs_base_of(ms[k]), ItemFindAll(chunk_of(z, ms, k), 1),
                            Len(ItemFindAll(chunk_of(z, ms, k), 1)), fresh_seen(prev.seen))
         IN  [seen |-> r.seen, out |-> prev.out \o r.out]

extract_ecs_rows(t) ==
    LET z == clip_relevant_zone(t)
        ms == ECSFindIter(z, 1)
    IN  RowsLoop(z, ms, Len(ms), {}).out

---------------------------------------------------------------------------
(* Input texts                                                             *)

\* the longest word sequence a generated text is made of
MaxWords == 5

SeqsUpTo(S, n) == UNION {[1..k -> S] : k \in 0..n}

\* sep.join(ws)
RECURSIVE Join(_, _)
Join(ws, sep) ==
    IF Len(ws) = 0 THEN <<>>
    ELSE IF Len(ws) = 1 THEN ws[1]
    ELSE ws[1] \o sep \o Join(Tail(ws), sep)

W_HNX == <<"1", "H", "N", "X", "1", "0", "S", "T">>
W_hk == <<"1", "h", "k", "-", "1", "0", "s", "e">>
W_HPB == <<"1", "H", "P", "B", "0", "N", "S", "T">>
W_2292 == <<"2", "2", "9", "2">>
W_0031 == <<"0", "0", "3", "1", ".", "1">>
W_5555 == <<"5", "5", "5", "5">>
W_blah == <<"b", "l", "a", "h">>
W_Today == <<"T", "o", "d", "a", "y", "'", "s", " ", "T", "a", "s", "k", "s">>
W_Manpower == <<"M", "a", "n", "p", "o", "w", "e", "r">>

RowWords == {W_HNX, W_hk, W_2292, W_0031, W_Today, W_Manpower}

\* the end-to-end scenario of the specification
ScenarioText ==
    Join(<<W_HNX, W_2292, W_2292, W_blah, W_0031, W_HPB, W_5555>>, <<" ">>)

RowTexts == {Join(ws, <<" ">>) : ws \in SeqsUpTo(RowWords, MaxWords)} \cup {ScenarioText}

---------------------------------------------------------------------------
(* extract_ecs_rows, step by step                                          *)

\* nothing called yet
IdleRows ==
    /\ zone = <<>>
    /\ matches = <<>>
    /\ i = 0
    /\ items = <<>>
    /\ seen = {}
    /\ rows = <<>>
    /\ normalized = [called |-> FALSE]

IdleMeta ==
    /\ supervisor = <<>>
    /\ superintendent = <<>>
    /\ work_date = <<>>

IdleBatch ==
    /\ docx_paths = <<>>
    /\ done_docs = 0
    /\ all_new = <<>>
    /\ errors = 0
    /\ log = <<>>

IdleMerge ==
    /\ master_df = <<>>
    /\ new_df = <<>>
    /\ updated = <<>>

InitRows ==
    /\ pc = "start"
    /\ full_text \in RowTexts
    /\ assumed_year = 0
    /\ IdleRows /\ IdleMeta /\ IdleBatch /\ IdleMerge

\* lines 160-166: clip, find the codes, return [] when there is none; in the batch
\* the call follows the return of extract_metadata
ClipZone ==
    /\ pc \in {"start", "returned"}
    /\ zone' = clip_relevant_zone(full_text)
    /\ matches' = ECSFindIter(zone', 1)
    /\ pc' = IF matches' = <<>> THEN "done" ELSE "loop"
    /\ UNCHANGED <<full_text, i, items, seen, rows, normalized, metaVars, batchVars, mergeVars>>

\* lines 168-181: one iteration of the loop over the matches
NextMatch ==
    /\ pc = "loop"
    /\ i < Len(matches)
    /\ LET its == ItemFindAll(chunk_of(zone, matches, i + 1), 1)
           r == DedupLoop(ecs_base_of(matches[i + 1]), its, Len(its), fresh_seen(seen))
       IN  /\ items' = its
           /\ seen' = r.seen
           /\ rows' = rows \o r.out
    /\ i' = i + 1
    /\ UNCHANGED <<pc, full_text, zone, matches, normalized, metaVars, batchVars, mergeVars>>

\* line 183
ReturnRows ==
    /\ pc = "loop"
    /\ i = Len(matches)
    /\ pc' = "done"
    /\ UNCHANGED <<full_text, rowVars, normalized, metaVars, batchVars, mergeVars>>

NextRows == ClipZone \/ NextMatch \/ ReturnRows

SpecRows == InitRows /\ [][NextRows]_vars

---------------------------------------------------------------------------
(* Properties of extract_ecs_rows                                          *)

\* the distinct elements of a sequence, in the order of their first occurrence
FirstOccurrences(its) == {k \in 1..Len(its) : \A j \in 1..(k - 1) : its[j] # its[k]}
DistinctInOrder(its) ==
    LET F == FirstOccurrences(its)
    IN  [n \in 1..Cardinality(F) |->
            its[CHOOSE k \in F : Cardinality({j \in F : j <= k}) = n]]

NoRepeat(sq) == \A a, b \in 1..Len(sq) : a # b => sq[a] # sq[b]

\* the rows a step has appended
Added(old, new) == SubSeq(new, Len(old) + 1, Len(new))
Extends(old, new) == Len(new) >= Len(old) /\ SubSeq(new, 1, Len(old)) = old

\* C1: every iteration of the loop over the code matches appends, for its
\* chunk, exactly the distinct item tokens of the chunk in first-occurrence
\* order, paired with the chunk's code, whatever earlier chunks have emitted.
C1_ChunkLocalDedup ==
    [][(pc = "loop" /\ i' = i + 1) =>
          /\ Extends(rows, rows')
          /\ LET D == DistinctInOrder(items')
             IN  Added(rows, rows') =
                    [k \in 1..Len(D) |-> <<ecs_base_of(matches[i']), D[k]>>]]_vars

\* C1 witness: a second chunk that repeats an item and shares an item with the
\* rows of an earlier chunk of another code
C1_Witness ==
    /\ pc = "loop"
    /\ i >= 2
    /\ Len(items) > Cardinality(seen)
    /\ \E r \in 1..(Len(rows) - Cardinality(seen)) :
          /\ rows[r][2] \in seen
          /\ rows[r][1] # ecs_base_of(matches[i])

\* C2 (as claimed): the returned rows never hold the same pair twice
C2_NoPairTwice == pc = "done" => NoRepeat(rows)

\* C2 (amended): the rows appended for one code match's chunk never hold the
\* same pair twice, however often the chunk mentions an item; a pair recurs in
\* the result only through another code match.
C2_NoPairTwicePerChunk ==
    [][(pc = "loop" /\ i' = i + 1) =>
          /\ Extends(rows, rows')
          /\ NoRepeat(Added(rows, rows'))]_vars

\* C2 witness: the last chunk mentions an item twice and the rows hold a pair
\* twice, from two matches of the same code
C2_Witness ==
    /\ pc = "done"
    /\ Len(items) > Cardinality(seen)
    /\ ~NoRepeat(rows)

\* the chunk of the k-th match as the specification states it
ClaimedChunk(k) ==
    SubSeq(zone, matches[k].end + 1,
           IF k < Len(matches) THEN matches[k + 1].start - 1 ELSE Len(zone))

RECURSIVE ClaimedRows(_)
ClaimedRows(k) ==
    IF k = 0 THEN <<>>
    ELSE LET D == DistinctInOrder(ItemFindAll(ClaimedChunk(k), 1))
         IN  ClaimedRows(k - 1) \o
             [n \in 1..Len(D) |-> <<ecs_base_of(matches[k]), D[n]>>]

\* the code match nearest before position p of the zone
NearestBefore(p) ==
    LET K == {k \in 1..Len(matches) : matches[k].start < p}
    IN  IF K = {} THEN 0 ELSE Max(K)

ScenarioRows ==
    << <<W_HNX, W_2292>>, <<W_HNX, W_0031>>, <<W_HPB, W_5555>> >>

\* C3: the rows are the per-chunk pairs concatenated in code-match order, the
\* chunk of a match running from its end to the start of the next match (or the
\* end of the zone); every row's item is an item token of the zone paired with
\* the nearest code match before it, and no token before the first match gives a
\* row. The end-to-end scenario yields its three rows.
C3_ChunkingAndPairing ==
    pc = "done" =>
        /\ rows = ClaimedRows(Len(matches))
        /\ \A r \in 1..Len(rows) :
              \E p \in 1..Len(zone) :
                 /\ ItemMatchEnd(zone, p) > 0
                 /\ SubSeq(zone, p, ItemMatchEnd(zone, p)) = rows[r][2]
                 /\ NearestBefore(p) > 0
                 /\ ecs_base_of(matches[NearestBefore(p)]) = rows[r][1]
        /\ \A p \in 1..Len(zone) :
              (ItemMatchEnd(zone, p) > 0 /\ NearestBefore(p) = 0) =>
                 \A r \in 1..Len(rows) :
                    rows[r][2] = SubSeq(zone, p, ItemMatchEnd(zone, p)) =>
                       \E q \in (p + 1)..Len(zone) :
                          /\ NearestBefore(q) > 0
                          /\ ItemMatchEnd(zone, q) = q + Len(rows[r][2]) - 1
                          /\ SubSeq(zone, q, ItemMatchEnd(zone, q)) = rows[r][2]
        /\ full_text = ScenarioText => rows = ScenarioRows

\* C3 witness: two matches of different codes with rows, and an item token
\* before the first match
C3_Witness ==
    /\ pc = "done"
    /\ Len(matches) >= 2
    /\ \E a, b \in 1..Len(rows) : rows[a][1] # rows[b][1]
    /\ \E p \in 1..Len(zone) : ItemMatchEnd(zone, p) > 0 /\ NearestBefore(p) = 0

\* the zone as the specification states it: from the first Today's Tasks (or
\* the start) to the first Manpower at or after that point (or the end)
ClaimedZone(t) ==
    LET start == clip_start(t)
        E == {p \in 1..Len(t) : p - 1 >= start /\ ManpowerAt(t, p)}
        end == IF E = {} THEN Len(t) ELSE Min(E) - 1
    IN  Slice(t, start, end)

\* C4 (as claimed): the rows are those of the code matches inside the span from
\* Today's Tasks to the first Manpower at or after it; a Manpower before Today's
\* Tasks does not end the zone.
C4_ZoneSpan ==
    pc = "done" =>
        LET z == ClaimedZone(full_text)
            ms == ECSFindIter(z, 1)
        IN  rows = RowsLoop(z, ms, Len(ms), {}).out

---------------------------------------------------------------------------
(* Equipment-code recognition: the texts                                   *)

\* the longest separator between two segments of a generated code
MaxGap == 2

\* digit gap letters gap block gap letters, between a prefix and a suffix
CodeText(pre, g1, ls, g2, bl, g3, suf) ==
    pre \o <<"1">> \o g1 \o ls \o g2 \o bl \o g3 \o <<"S", "T">> \o suf

GapsOver(cs) == SeqsUpTo(cs, MaxGap)

CodeLetters == {<<"H", "K">>, <<"h", "n", "x">>, <<"H">>}
CodeBlocks == {<<"1", "0">>, <<"0", "b">>}
CodeAffixes ==
    { <<<<>>, <<>>>>,
      <<<<>>, <<" ", "2", "2", "9", "2">>>>,
      <<<<"x">>, <<>>>>,
      <<<<>>, <<"x">>>>,
      <<<<"2", "2", "9", "2", " ">>, <<"_">>>> }

Ex_Spaced == <<"1", " ", "H", "N", "X", " ", "1", "0", " ", "S", "T">>
Ex_Hyphen == <<"1", "H", "K", "-", "1", "0", "S", "E">>
Ex_Plain == <<"1", "H", "D", "D", "0", "B", "S", "T">>
Ex_Overlap == <<"1", "A", "B", " ", "2", "C", "D", "E", " ", "F", "G", " ", "H", "I">>

CodeTexts ==
    { CodeText(af[1], g1, ls, g2, bl, g3, af[2]) :
        g1 \in GapsOver({" ", "\n"}), ls \in CodeLetters,
        g2 \in GapsOver({" ", "-", "\n"}), bl \in CodeBlocks,
        g3 \in GapsOver({" "}) \cup {<<"\t">>, <<"\n">>}, af \in CodeAffixes }
    \cup {Ex_Spaced, Ex_Hyphen, Ex_Plain, Ex_Overlap, <<>>}

InitCode ==
    /\ pc = "start"
    /\ full_text \in CodeTexts
    /\ assumed_year = 0
    /\ IdleRows /\ IdleMeta /\ IdleBatch /\ IdleMerge

\* normalize_ecs_base(full_text)
Normalize ==
    /\ pc = "start"
    /\ normalized' = [called |-> TRUE, result |-> normalize_ecs_base(full_text)]
    /\ pc' = "normalized"
    /\ UNCHANGED <<full_text, rowVars, metaVars, batchVars, mergeVars>>

NextCode == Normalize \/ ClipZone \/ NextMatch \/ ReturnRows

SpecCode == InitCode /\ [][NextCode]_vars

---------------------------------------------------------------------------
(* Properties of the equipment-code pattern                                *)

\* z[from..to] holds only whitespace and at most one hyphen
LooseGap(z, from, to) ==
    /\ AllIn(z, from, to, SpaceSet \cup {"-"})
    /\ Cardinality({k \in from..to : z[k] = "-"}) <= 1

\* z[a..b] is word-bounded, starts with a digit and ends with two letters
Framed(z, a, b) ==
    /\ z[a] \in DigitSet
    /\ WordBoundary(z, a) /\ WordBoundary(z, b + 1)
    /\ AllIn(z, b - 1, b, LetterSet)

\* between the digit and the last two letters: whitespace, n letters starting
\* at p1, whitespace with at most one hyphen, two alphanumerics starting at p2,
\* whitespace
ShapedAs(z, a, b, n, p1, p2) ==
    /\ a < p1 /\ p1 + n <= p2 /\ p2 + 2 <= b - 1
    /\ AllIn(z, a + 1, p1 - 1, SpaceSet)
    /\ AllIn(z, p1, p1 + n - 1, LetterSet)
    /\ LooseGap(z, p1 + n, p2 - 1)
    /\ AllIn(z, p2, p2 + 1, LetterSet \cup DigitSet)
    /\ AllIn(z, p2 + 2, b - 2, SpaceSet)

Shaped(z, a, b) ==
    /\ Framed(z, a, b)
    /\ \E n \in {2, 3}, p1 \in (a + 1)..b, p2 \in (a + 1)..b : ShapedAs(z, a, b, n, p1, p2)

\* the same with the separators of the specification: an optional blank, an
\* optional single blank or hyphen, an optional blank
StrictlyShaped(z, a, b) ==
    /\ Framed(z, a, b)
    /\ \E n \in {2, 3}, p1 \in (a + 1)..b, p2 \in (a + 1)..b :
          /\ ShapedAs(z, a, b, n, p1, p2)
          /\ p1 - (a + 1) <= 1 /\ AllIn(z, a + 1, p1 - 1, {" "})
          /\ p2 - (p1 + n) <= 1 /\ AllIn(z, p1 + n, p2 - 1, {" ", "-"})
          /\ (b - 1) - (p2 + 2) <= 1 /\ AllIn(z, p2 + 2, b - 2, {" "})

\* the segments of z[a..b] without their separators, uppercased
SegmentsUpper(z, a, b) ==
    upper(SelectSeq(SubSeq(z, a, b), LAMBDA c : c \notin SpaceSet \cup {"-"}))

IsMatch(a, b) == \E k \in 1..Len(matches) : matches[k].start = a /\ matches[k].end = b
InsideEarlierMatch(a) ==
    \E k \in 1..Len(matches) : matches[k].start < a /\ a <= matches[k].end

\* the codes the recognised matches produce are their segments, uppercased and
\* joined, and the three examples normalise as documented
CodesAreSegments ==
    /\ pc # "start" /\ pc # "normalized" =>
          \A k \in 1..Len(matches) :
             ecs_base_of(matches[k]) = SegmentsUpper(zone, matches[k].start, matches[k].end)
    /\ pc = "normalized" =>
          /\ full_text = Ex_Spaced => normalized.result = Some(W_HNX)
          /\ full_text = Ex_Hyphen =>
                normalized.result = Some(<<"1", "H", "K", "1", "0", "S", "E">>)
          /\ full_text = Ex_Plain => normalized.result = Some(Ex_Plain)

\* C5 (as claimed): a zone substring is recognised as a code exactly when it is
\* word-bounded and built of the four segments with at most one blank between
\* them (or one hyphen before the 2-character block); nothing with other
\* separators is recognised.
C5_StrictSeparators ==
    /\ pc \in {"loop", "done"} =>
          \A a, b \in 1..Len(zone) :
             (a < b /\ ~InsideEarlierMatch(a)) => (IsMatch(a, b) <=> StrictlyShaped(zone, a, b))
    /\ CodesAreSegments

\* C5 (amended): the separators are arbitrary runs of whitespace (line breaks
\* included), the one before the 2-character block holding at most one hyphen;
\* such a substring is recognised exactly when it does not start inside a code
\* recognised to its left, and the code is the segments uppercased and joined.
C5_WhitespaceRunSeparators ==
    /\ pc \in {"loop", "done"} =>
          \A a, b \in 1..Len(zone) :
             (a < b /\ ~InsideEarlierMatch(a)) => (IsMatch(a, b) <=> Shaped(zone, a, b))
    /\ CodesAreSegments

\* C5 witness: a lower-case code written with a line break and a hyphen is
\* recognised and has produced a row
C5_Witness ==
    /\ pc = "done"
    /\ Len(matches) = 1
    /\ \E k \in matches[1].start..matches[1].end : zone[k] = "\n"
    /\ \E k \in matches[1].start..matches[1].end : zone[k] = "-"
    /\ \E k \in matches[1].start..matches[1].end : zone[k] \in LowerSet
    /\ rows = << <<<<"1", "H", "N", "X", "0", "B", "S", "T">>, W_2292>> >>

---------------------------------------------------------------------------
(* extract_metadata: the signatures                                        *)

\* [A-Za-z '\-]
NameSet == LetterSet \cup {" ", "'", "-"}

L_Signed == <<"S", "i", "g", "n", "e", "d">>
L_Supervisor == <<"(", "S", "u", "p", "e", "r", "v", "i", "s", "o", "r", ")">>
L_Superintendent ==
    <<"(", "S", "u", "p", "e", "r", "i", "n", "t", "e", "n", "d", "e", "n", "t", ")">>

\* the last position of the greedy run [A-Za-z '\-]* that starts at p (p - 1 when empty)
RECURSIVE NameRunEnd(_, _)
NameRunEnd(s, p) ==
    IF p <= Len(s) /\ s[p] \in NameSet THEN NameRunEnd(s, p + 1) ELSE p - 1

\* Signed\s*<role>\s*([A-Za-z][A-Za-z '\-]+) /i at p: group 1, or NoMatch
SignedAt(s, p, role) ==
    IF ~LitAt(s, p, L_Signed) THEN NoMatch
    ELSE
    LET q == SkipSpaces(s, p + Len(L_Signed))
    IN  IF ~LitAt(s, q, role) THEN NoMatch
    ELSE
    LET r == SkipSpaces(s, q + Len(role))
    IN  IF ~(r + 1 <= Len(s) /\ s[r] \in LetterSet /\ s[r + 1] \in NameSet) THEN NoMatch
    ELSE [ok |-> TRUE, start |-> p, g1 |-> SubSeq(s, r, NameRunEnd(s, r + 1))]

\* re.search of the signature pattern: the leftmost match
SignedSearch(s, role) ==
    LET S == {p \in 1..Len(s) : SignedAt(s, p, role).ok}
    IN  IF S = {} THEN NoMatch ELSE SignedAt(s, Min(S), role)

\* lines 84-93: the local after "if m: name = _clean_spaces(m.group(1))"
signature_name(txt, role) ==
    LET m == SignedSearch(txt, role)
    IN  IF m.ok THEN clean_spaces(m.g1) ELSE <<>>

---------------------------------------------------------------------------
(* extract_metadata: the date                                              *)

MONTHS ==
    << <<"J", "a", "n", "u", "a", "r", "y">>,
       <<"F", "e", "b", "r", "u", "a", "r", "y">>,
       <<"M", "a", "r", "c", "h">>,
       <<"A", "p", "r", "i", "l">>,
       <<"M", "a", "y">>,
       <<"J", "u", "n", "e">>,
       <<"J", "u", "l", "y">>,
       <<"A", "u", "g", "u", "s", "t">>,
       <<"S", "e", "p", "t", "e", "m", "b", "e", "r">>,
       <<"O", "c", "t", "o", "b", "e", "r">>,
       <<"N", "o", "v", "e", "m", "b", "e", "r">>,
       <<"D", "e", "c", "e", "m", "b", "e", "r">> >>

LowerOf == [c \in UpperSet |-> LowerChars[CHOOSE k \in 1..26 : UpperChars[k] = c]]
lower_char(c) == IF c \in UpperSet THEN LowerOf[c] ELSE c

\* str.capitalize()
capitalize(s) ==
    [k \in 1..Len(s) |-> IF k = 1 THEN upper_char(s[k]) ELSE lower_char(s[k])]

DigitVal == [c \in DigitSet |-> (CHOOSE k \in 1..10 : DigitChars[k] = c) - 1]

\* int() of a digit string
RECURSIVE int(_)
int(ds) == IF ds = <<>> THEN 0 ELSE 10 * int(SubSeq(ds, 1, Len(ds) - 1)) + DigitVal[ds[Len(ds)]]

\* (?:st|nd|rd|th) /i at q
OrdinalAt(s, q) ==
    \E suf \in {<<"s", "t">>, <<"n", "d">>, <<"r", "d">>, <<"t", "h">>} : LitAt(s, q, suf)

\* \s+MONTH\b(?:\s+(\d{4}))? from q, for a match that starts at p with group 1 = g1
PrimaryRest(s, p, g1, q) ==
    IF ~(q <= Len(s) /\ s[q] \in SpaceSet) THEN NoMatch
    ELSE
    LET m == SkipSpaces(s, q)
        K == {k \in 1..12 : LitAt(s, m, MONTHS[k]) /\ WordBoundary(s, m + Len(MONTHS[k]))}
    IN  IF K = {} THEN NoMatch
    ELSE
    LET e == m + Len(MONTHS[Min(K)])
        y == SkipSpaces(s, e)
    IN  [ok |-> TRUE, start |-> p, g1 |-> g1, g2 |-> SubSeq(s, m, e - 1),
         g3 |-> IF y > e /\ AllIn(s, y, y + 3, DigitSet) THEN SubSeq(s, y, y + 3) ELSE <<>>]

\* \b(\d{1,2})(?:st|nd|rd|th)? with nd digits, then the rest
PrimaryWith(s, p, nd) ==
    IF ~(WordBoundary(s, p) /\ AllIn(s, p, p + nd - 1, DigitSet)) THEN NoMatch
    ELSE
    LET g1 == SubSeq(s, p, p + nd - 1)
        withSuffix == IF OrdinalAt(s, p + nd) THEN PrimaryRest(s, p, g1, p + nd + 2) ELSE NoMatch
    IN  IF withSuffix.ok THEN withSuffix ELSE PrimaryRest(s, p, g1, p + nd)

\* the match at p: \d{1,2} is greedy
PrimaryAt(s, p) ==
    LET m2 == PrimaryWith(s, p, 2)
    IN  IF m2.ok THEN m2 ELSE PrimaryWith(s, p, 1)

\* md = re.search(primary pattern, txt)
PrimarySearch(s) ==
    LET S == {p \in 1..Len(s) : PrimaryAt(s, p).ok}
    IN  IF S = {} THEN NoMatch ELSE PrimaryAt(s, Min(S))

\* the end of the line that holds position q
RECURSIVE LineEnd(_, _)
LineEnd(s, q) == IF q + 1 <= Len(s) /\ s[q + 1] # "\n" THEN LineEnd(s, q + 1) ELSE q

\* Date\s*\n?\s*([^\n]+) /i at p, group 1 stripped. When only whitespace
\* follows Date up to the end of the text, the pattern either fails or captures
\* blanks that strip() empties: both leave fallback falsy.
DateLineAt(s, p) ==
    IF ~LitAt(s, p, <<"D", "a", "t", "e">>) THEN NoMatch
    ELSE LET q == SkipSpaces(s, p + 4)
         IN  IF q > Len(s) THEN [ok |-> TRUE, fallback |-> <<>>]
             ELSE [ok |-> TRUE, fallback |-> strip(SubSeq(s, q, LineEnd(s, q)))]

\* fallback of lines 100-103: "" stands for None as well (both falsy)
fallback_of(s) ==
    LET S == {p \in 1..Len(s) : DateLineAt(s, p).ok}
    IN  IF S = {} THEN <<>> ELSE DateLineAt(s, Min(S)).fallback

IsLeap(y) == (y % 4 = 0 /\ y % 100 # 0) \/ y % 400 = 0
DaysInMonth(y, m) ==
    IF m \in {4, 6, 9, 11} THEN 30
    ELSE IF m = 2 THEN (IF IsLeap(y) THEN 29 ELSE 28)
    ELSE 31

Raised == [raised |-> TRUE]
Returned(d) == [raised |-> FALSE, date |-> d]

\* datetime.date(y, m, d): the date, or ValueError
date(y, m, d) ==
    IF y >= 1 /\ y <= 9999 /\ m >= 1 /\ m <= 12 /\ d >= 1 /\ d <= DaysInMonth(y, m)
    THEN Returned(<<y, m, d>>)
    ELSE Raised

\* dd/mm/yyyy at p
NumericDateAt(s, p) ==
    /\ AllIn(s, p, p + 1, DigitSet)
    /\ p + 9 <= Len(s)
    /\ s[p + 2] = "/"
    /\ AllIn(s, p + 3, p + 4, DigitSet)
    /\ s[p + 5] = "/"
    /\ AllIn(s, p + 6, p + 9, DigitSet)
    /\ WordBoundary(s, p) /\ WordBoundary(s, p + 10)

\* dt_parse(fallback, dayfirst=True, fuzzy=True, default=1 January assumed_year):
\* the possible outcomes. A text whose only digits are one dd/mm/yyyy group is
\* read day first and fails when that is no calendar date; what the library
\* makes of any other text is left open (it fails or returns some date built on
\* the default).
dt_parse(s, year) ==
    LET S == {p \in 1..Len(s) : NumericDateAt(s, p)}
    IN  IF /\ Cardinality(S) = 1
           /\ \A k \in 1..Len(s) : s[k] \in DigitSet => \E p \in S : p <= k /\ k <= p + 9
        THEN LET p == Min(S)
             IN  {date(int(SubSeq(s, p + 6, p + 9)), int(SubSeq(s, p + 3, p + 4)),
                       int(SubSeq(s, p, p + 1)))}
        ELSE {Raised, date(year, 1, 1)}

\* line 119 with the captured year ignored
primary_year_ignoring_capture(md, year) == year

\* year = int(md.group(3)) if md.group(3) else assumed_year
primary_year(md, year) == IF md.g3 # <<>> THEN int(md.g3) ELSE year

\* MONTHS.index(md.group(2).capitalize()) + 1
month_num(md) == CHOOSE k \in 1..12 : MONTHS[k] = capitalize(md.g2)

\* lines 117-123: an invalid date answered with 1 January instead of raising
primary_date_clamped(md, year) ==
    LET d == date(primary_year(md, year), month_num(md), int(md.g1))
    IN  IF d.raised THEN date(year, 1, 1) ELSE d

\* lines 117-123
primary_date(md, year) == date(primary_year(md, year), month_num(md), int(md.g1))

\* the work date extract_metadata returns, or the exception it raises
date_outcomes(txt, year) ==
    LET md == PrimarySearch(txt)
    IN  IF md.ok THEN {primary_date(md, year)}
        ELSE IF fallback_of(txt) # <<>> THEN dt_parse(fallback_of(txt), year)
        ELSE {date(year, 1, 1)}

---------------------------------------------------------------------------
(* extract_metadata, step by step                                          *)

\* the most lines a generated document text is made of
MaxLines == 3

T_SupJohn ==
    <<"S", "i", "g", "n", "e", "d", " ", "(", "S", "u", "p", "e", "r", "v", "i", "s", "o", "r", ")",
      " ", "J", "o", "h", "n", " ", " ", "O", "'", "B", "r", "i", "e", "n">>
T_SupNoBlank ==
    <<"S", "i", "g", "n", "e", "d", "(", "S", "u", "p", "e", "r", "v", "i", "s", "o", "r", ")",
      " ", "A", "l">>
T_SupOneLetter ==
    <<"S", "i", "g", "n", "e", "d", " ", "(", "S", "u", "p", "e", "r", "v", "i", "s", "o", "r", ")",
      " ", "J">>
T_SupAlone ==
    <<"S", "i", "g", "n", "e", "d", " ", "(", "S", "u", "p", "e", "r", "v", "i", "s", "o", "r", ")">>
T_SuperJane ==
    <<"S", "i", "g", "n", "e", "d", " ", "(", "S", "u", "p", "e", "r", "i", "n", "t", "e", "n", "d",
      "e", "n", "t", ")", " ", "J", "a", "n", "e", " ", "D", "o", "e">>
T_7thJanuary2023 ==
    <<"7", "t", "h", " ", "J", "a", "n", "u", "a", "r", "y", " ", "2", "0", "2", "3">>
T_7january == <<"7", " ", "j", "a", "n", "u", "a", "r", "y">>
T_29February == <<"2", "9", " ", "F", "e", "b", "r", "u", "a", "r", "y">>
T_Date == <<"D", "a", "t", "e">>
T_Numeric == <<"0", "3", "/", "0", "4", "/", "2", "0", "2", "5">>
T_DateColon ==
    <<"D", "a", "t", "e", ":", " ", "0", "5", "/", "0", "6", "/", "2", "0", "2", "5">>
T_Update == <<"S", "h", "i", "f", "t", " ", "u", "p", "d", "a", "t", "e">>

MetaLines ==
    {T_SupJohn, T_SupNoBlank, T_SupOneLetter, T_SupAlone, T_SuperJane, T_7thJanuary2023,
     T_7january, T_29February, T_Date, T_Numeric, T_DateColon, T_Update}

\* "\n".join(texts) of extract_text_from_docx
MetaTexts == {Join(ls, <<"\n">>) : ls \in SeqsUpTo(MetaLines, MaxLines)}

AssumedYears == {2024, 2025}

InitMeta ==
    /\ pc = "meta"
    /\ full_text \in MetaTexts
    /\ assumed_year \in AssumedYears
    /\ IdleRows /\ IdleMeta /\ IdleBatch /\ IdleMerge

\* lines 84-93
FindSignatures ==
    /\ pc = "meta"
    /\ supervisor' = signature_name(full_text, L_Supervisor)
    /\ superintendent' = signature_name(full_text, L_Superintendent)
    /\ pc' = "date"
    /\ UNCHANGED <<full_text, normalized, rowVars, assumed_year, work_date, batchVars, mergeVars>>

\* the function returns DocMetadata(work_date = o.date, ...) or raises
Outcome(o) ==
    /\ pc' = IF o.raised THEN "raised" ELSE "returned"
    /\ work_date' = IF o.raised THEN <<>> ELSE o.date
    /\ UNCHANGED <<full_text, normalized, rowVars, assumed_year, supervisor, superintendent,
                   batchVars, mergeVars>>

\* lines 96-98, 117-126: the primary pattern has a match
PrimaryDate ==
    /\ pc = "date"
    /\ PrimarySearch(full_text).ok
    /\ Outcome(primary_date(PrimarySearch(full_text), assumed_year))

\* lines 99-112: no primary match, a truthy fallback
FallbackDate ==
    /\ pc = "date"
    /\ ~PrimarySearch(full_text).ok
    /\ fallback_of(full_text) # <<>>
    /\ \E o \in dt_parse(fallback_of(full_text), assumed_year) : Outcome(o)

\* line 115: the last resort
LastResort ==
    /\ pc = "date"
    /\ ~PrimarySearch(full_text).ok
    /\ fallback_of(full_text) = <<>>
    /\ Outcome(date(assumed_year, 1, 1))

NextMeta == FindSignatures \/ PrimaryDate \/ FallbackDate \/ LastResort

SpecMeta == InitMeta /\ [][NextMeta]_vars

---------------------------------------------------------------------------
(* Properties of extract_metadata                                          *)

\* the value of a string of one to four decimal digits
DecimalValue(ds) ==
    LET v(k) == DigitVal[ds[k]]
    IN  CASE Len(ds) = 1 -> v(1)
          [] Len(ds) = 2 -> 10 * v(1) + v(2)
          [] Len(ds) = 3 -> 100 * v(1) + 10 * v(2) + v(3)
          [] Len(ds) = 4 -> 1000 * v(1) + 100 * v(2) + 10 * v(3) + v(4)

\* January = 1 ... December = 12, whatever the case of the name
MonthNumber(name) == CHOOSE k \in 1..12 : upper(MONTHS[k]) = upper(name)

IsCalendarDate(y, m, d) == y >= 1 /\ y <= 9999 /\ d >= 1 /\ d <= DaysInMonth(y, m)

\* the text from position q to the end of its line, without trailing whitespace
RestOfLine(t, q) ==
    LET E == {e \in q..Len(t) : \A k \in q..e : t[k] # "\n"}
        K == {k \in E : t[k] \notin SpaceSet}
    IN  SubSeq(t, q, Max(K))

\* <<p, q>>: the letters d, a, t, e in any case at p, then only whitespace up to
\* a character at q that is no whitespace
DateOccurrences(t) ==
    UNION { { <<p, q>> : q \in {q \in (p + 4)..Len(t) :
                                  /\ AllIn(t, p + 4, q - 1, SpaceSet)
                                  /\ t[q] \notin SpaceSet} } :
            p \in {p \in 1..Len(t) : LitAt(t, p, T_Date)} }

\* those with a line break between Date and the character at q
DateThenNewline(t) ==
    {pq \in DateOccurrences(t) : \E n \in (pq[1] + 4)..(pq[2] - 1) : t[n] = "\n"}

\* the line parsed for an occurrence set: that of the leftmost occurrence
LineOfFirst(t, occ) ==
    LET pq == CHOOSE x \in occ : \A y \in occ : x[1] <= y[1]
    IN  RestOfLine(t, pq[2])

\* the outcome the date priority order prescribes, for a given set of Date
\* occurrences that count for the fallback
PriorityOrder(occ) ==
    LET md == PrimarySearch(full_text)
        y == IF md.g3 # <<>> THEN DecimalValue(md.g3) ELSE assumed_year
        m == MonthNumber(md.g2)
        d == DecimalValue(md.g1)
    IN  IF md.ok
        THEN IF IsCalendarDate(y, m, d)
             THEN pc = "returned" /\ work_date = <<y, m, d>>
             ELSE pc = "raised"
        ELSE IF occ # {}
        THEN \/ pc = "returned" /\
                Returned(work_date) \in dt_parse(LineOfFirst(full_text, occ), assumed_year)
             \/ pc = "raised" /\ Raised \in dt_parse(LineOfFirst(full_text, occ), assumed_year)
        ELSE pc = "returned" /\ work_date = <<assumed_year, 1, 1>>

\* C6 (as claimed): primary pattern first; else, when the word Date is followed
\* by a newline and a non-empty rest of line, that line is parsed; when neither
\* pattern matches, 1 January of assumed_year.
C6_DateThenNewlineFallback ==
    pc \in {"returned", "raised"} => PriorityOrder(DateThenNewline(full_text))

\* C6 (amended): the fallback applies to the first occurrence of the letters
\* "date" (any case, also inside a word) that is followed, after optional
\* whitespace with or without a line break, by a character; the rest of that
\* line is parsed, and the call fails when the parser finds no date in it.
C6_DatePriorityOrder ==
    pc \in {"returned", "raised"} => PriorityOrder(DateOccurrences(full_text))

\* C6 witness: no primary match, "Date: 05/06/2025" on one line, parsed day first
C6_Witness ==
    /\ pc = "returned"
    /\ ~PrimarySearch(full_text).ok
    /\ DateThenNewline(full_text) = {}
    /\ assumed_year = 2024
    /\ work_date = <<2025, 6, 5>>

\* the maximal non-blank segments of s, in order
WordStarts(s) ==
    {k \in 1..Len(s) : s[k] \notin {" ", "\t"} /\ (k = 1 \/ s[k - 1] \in {" ", "\t"})}
WordFrom(s, k) ==
    SubSeq(s, k, Max({e \in k..Len(s) : \A j \in k..e : s[j] \notin {" ", "\t"}}))
WordsOf(s) ==
    LET S == WordStarts(s)
    IN  [n \in 1..Cardinality(S) |->
            WordFrom(s, CHOOSE k \in S : Cardinality({j \in S : j <= k}) = n)]

\* the run of name characters that starts at r
NameRun(t, r) == SubSeq(t, r, Max({e \in r..Len(t) : \A k \in r..e : t[k] \in NameSet}))

\* <<p, r>>: Signed at p, optional whitespace, (Supervisor), optional
\* whitespace, then at r a letter followed by a name character
SupervisorOccurrences(t) ==
    UNION { { <<pq[1], r>> : r \in {r \in (pq[2] + 12)..(Len(t) - 1) :
                                      /\ AllIn(t, pq[2] + 12, r - 1, SpaceSet)
                                      /\ t[r] \in LetterSet
                                      /\ t[r + 1] \in NameSet} } :
            pq \in UNION { { <<p, q>> : q \in {q \in (p + 6)..Len(t) :
                                                /\ AllIn(t, p + 6, q - 1, SpaceSet)
                                                /\ LitAt(t, q, L_Supervisor)} } :
                           p \in {p \in 1..Len(t) : LitAt(t, p, L_Signed)} } }

ExpectedSupervisor(t) ==
    LET occ == SupervisorOccurrences(t)
    IN  IF occ = {} THEN <<>>
        ELSE LET pr == CHOOSE x \in occ : \A y \in occ : x[1] <= y[1]
             IN  Join(WordsOf(NameRun(t, pr[2])), <<" ">>)

\* the literal phrase with its single blank, then optional whitespace, then a
\* run of one or more name characters that starts with a letter
ClaimedSupervisor(t) ==
    LET P == {p \in 1..Len(t) : LitAt(t, p, L_Signed \o <<" ">> \o L_Supervisor)}
        r == SkipSpaces(t, Min(P) + 19)
    IN  IF P = {} THEN <<>>
        ELSE IF r <= Len(t) /\ t[r] \in LetterSet
             THEN Join(WordsOf(NameRun(t, r)), <<" ">>)
             ELSE <<>>

\* C10 (as claimed): supervisor is the run of one or more name characters,
\* starting with a letter, after the first 'Signed (Supervisor)'; empty when the
\* phrase is absent or not followed by such a run.
C10_SupervisorAfterLiteralPhrase ==
    pc \in {"date", "returned"} => supervisor = ClaimedSupervisor(full_text)

\* C10 (amended): the phrase may have any whitespace, or none, between Signed
\* and (Supervisor); the run is a letter followed by at least one more name
\* character, taken after the first occurrence of the phrase that is followed
\* by such a run; blanks collapsed and trimmed; empty otherwise; the same on
\* every return path, whatever superintendent and date are found.
C10_SupervisorRun ==
    pc \in {"date", "returned"} => supervisor = ExpectedSupervisor(full_text)

\* C10 witness: "John  O'Brien" returned with one blank, beside a
\* superintendent and a date taken from the primary pattern
C10_Witness ==
    /\ pc = "returned"
    /\ supervisor = <<"J", "o", "h", "n", " ", "O", "'", "B", "r", "i", "e", "n">>
    /\ superintendent # <<>>
    /\ work_date = <<2023, 1, 7>>

---------------------------------------------------------------------------
(* append_and_dedup                                                        *)

\* the characters of the full codes, in code-point order
CodePoints ==
    <<".">> \o DigitChars \o UpperChars

CodePoint(c) == CHOOSE k \in 1..Len(CodePoints) : CodePoints[k] = c

\* a < b for Python strings
RECURSIVE StrLess(_, _)
StrLess(a, b) ==
    IF b = <<>> THEN FALSE
    ELSE IF a = <<>> THEN TRUE
    ELSE IF a[1] = b[1] THEN StrLess(Tail(a), Tail(b))
    ELSE CodePoint(a[1]) < CodePoint(b[1])

\* the values a WORK_DATE cell can hold: a date <<y, m, d>>, a timestamp
\* <<y, m, d, hour>> (a date cell read back from a workbook) or nothing (an empty
\* cell); NaT is the missing date
NaT == <<>>

\* pd.to_datetime(cell, errors="coerce") then .dt.date
to_date(cell) ==
    IF Len(cell) = 3 THEN cell
    ELSE IF Len(cell) = 4 THEN SubSeq(cell, 1, 3)
    ELSE NaT

\* a < b for datetime.date
DateLess(a, b) ==
    \/ a[1] < b[1]
    \/ a[1] = b[1] /\ a[2] < b[2]
    \/ a[1] = b[1] /\ a[2] = b[2] /\ a[3] < b[3]

\* line 43 left out: the cells stay as they are
normalize_dates_skipped(df) == df

\* line 43
normalize_dates(df) ==
    [k \in 1..Len(df) |-> [df[k] EXCEPT !.WORK_DATE = to_date(df[k].WORK_DATE)]]

\* DEDUP_KEYS
dedup_key(r) == <<r.ECS_CODE_FULL, r.WORK_DATE>>

\* drop_duplicates(subset=DEDUP_KEYS, keep="last")
RECURSIVE drop_duplicates_keep_last(_)
drop_duplicates_keep_last(df) ==
    IF df = <<>> THEN <<>>
    ELSE IF \E k \in 2..Len(df) : dedup_key(df[k]) = dedup_key(df[1])
         THEN drop_duplicates_keep_last(Tail(df))
         ELSE <<df[1]>> \o drop_duplicates_keep_last(Tail(df))

\* drop_duplicates(subset=DEDUP_KEYS, keep="first")
RECURSIVE drop_duplicates(_)
drop_duplicates(df) ==
    IF df = <<>> THEN <<>>
    ELSE LET front == drop_duplicates(SubSeq(df, 1, Len(df) - 1))
             last == df[Len(df)]
         IN  IF \E k \in 1..(Len(df) - 1) : dedup_key(df[k]) = dedup_key(last)
             THEN front
             ELSE Append(front, last)

\* the order of sort_values(by=["WORK_DATE", "ECS_CODE_FULL"]): a sorts strictly
\* before b; missing dates sort last
SortsBefore(a, b) ==
    IF a.WORK_DATE = NaT THEN b.WORK_DATE = NaT /\ StrLess(a.ECS_CODE_FULL, b.ECS_CODE_FULL)
    ELSE IF b.WORK_DATE = NaT THEN TRUE
    ELSE \/ DateLess(a.WORK_DATE, b.WORK_DATE)
         \/ a.WORK_DATE = b.WORK_DATE /\ StrLess(a.ECS_CODE_FULL, b.ECS_CODE_FULL)

\* r inserted into the sorted frame df after every row that does not sort after it
RECURSIVE InsertSorted(_, _)
InsertSorted(df, r) ==
    IF df = <<>> THEN <<r>>
    ELSE IF SortsBefore(r, df[1]) THEN <<r>> \o df
    ELSE <<df[1]>> \o InsertSorted(Tail(df), r)

\* sort_values(..., kind="stable").reset_index(drop=True)
RECURSIVE sort_values(_)
sort_values(df) ==
    IF df = <<>> THEN <<>>
    ELSE InsertSorted(sort_values(SubSeq(df, 1, Len(df) - 1)), df[Len(df)])

append_and_dedup(master, new) ==
    sort_values(drop_duplicates(normalize_dates(master \o new)))

---------------------------------------------------------------------------
(* append_and_dedup on generated frames                                    *)

\* the most rows the ledger and the new frame hold together
MaxRows == 3

FullCodes ==
    { <<"1", "H", "K", "1", "0", "S", "E", "2", "2", "9", "2">>,
      <<"1", "H", "N", "X", "1", "0", "S", "T", "0", "0", "3", "1", ".", "1">> }

LedgerRows ==
    { [ECS_CODE_FULL |-> c, WORK_DATE |-> d, SOURCE_FILE |-> f, INGESTED_AT |-> 0] :
        c \in FullCodes,
        d \in { <<2025, 1, 7>>, <<2024, 12, 31>>, <<2025, 1, 7, 13>>, <<>> },
        f \in {"old1.docx", "old2.docx"} }

IngestedRows ==
    { [ECS_CODE_FULL |-> c, WORK_DATE |-> d, SOURCE_FILE |-> "new.docx", INGESTED_AT |-> 1] :
        c \in FullCodes, d \in { <<2025, 1, 7>>, <<2024, 12, 31>> } }

InitMerge ==
    /\ pc = "merge"
    /\ \E a \in 0..MaxRows :
          /\ master_df \in [1..a -> LedgerRows]
          /\ new_df \in SeqsUpTo(IngestedRows, MaxRows - a)
    /\ updated = <<>>
    /\ full_text = <<>>
    /\ assumed_year = 0
    /\ IdleRows /\ IdleMeta /\ IdleBatch

\* updated = append_and_dedup(master_df, new_df)
Merge ==
    /\ pc = "merge"
    /\ updated' = append_and_dedup(master_df, new_df)
    /\ pc' = "merged"
    /\ UNCHANGED <<full_text, normalized, rowVars, metaVars, batchVars, master_df, new_df>>

\* read_master(to_excel_bytes(df)): a date is written as a date-time cell and read
\* back as a timestamp at midnight, a missing date as an empty cell
read_saved_master(df) ==
    [k \in 1..Len(df) |->
        [df[k] EXCEPT !.WORK_DATE = IF @ = NaT THEN <<>> ELSE @ \o <<0>>]]

\* main.py lines 148, 197-198: net added
delta(before_df, after_df) == Len(after_df) - Len(before_df)

\* the same documents processed again, with the saved workbook as master: the
\* same rows, ingested at a later time
Reingest ==
    /\ pc = "merged"
    /\ master_df' = read_saved_master(updated)
    /\ new_df' = [k \in 1..Len(new_df) |-> [new_df[k] EXCEPT !.INGESTED_AT = 2]]
    /\ updated' = append_and_dedup(master_df', new_df')
    /\ pc' = "remerged"
    /\ UNCHANGED <<full_text, normalized, rowVars, metaVars, batchVars>>

NextMerge == Merge \/ Reingest

SpecMerge == InitMerge /\ [][NextMerge]_vars

---------------------------------------------------------------------------
(* Properties of append_and_dedup                                          *)

\* the rows in the order ledger then new, with the calendar date of each
Combined == normalize_dates(master_df \o new_df)

\* the first row of Combined with the key of Combined[k]
FirstWithKey(k) ==
    Min({j \in 1..Len(Combined) :
            /\ Combined[j].ECS_CODE_FULL = Combined[k].ECS_CODE_FULL
            /\ Combined[j].WORK_DATE = Combined[k].WORK_DATE})

\* C9: the result holds exactly the first occurrences of the (full code, work
\* date) keys in the order ledger then new, one row per key, in ascending order
\* of (work date, full code); a key of the ledger keeps its ledger row.
C9_FirstOccurrenceSorted ==
    pc = "merged" =>
        /\ \A a, b \in 1..Len(updated) :
              a # b => dedup_key(updated[a]) # dedup_key(updated[b])
        /\ {updated[k] : k \in 1..Len(updated)} =
              {Combined[FirstWithKey(k)] : k \in 1..Len(Combined)}
        /\ \A a, b \in 1..Len(updated) :
              a < b =>
                 LET x == updated[a]
                     y == updated[b]
                 IN  \/ x.WORK_DATE # NaT /\ y.WORK_DATE = NaT
                     \/ x.WORK_DATE = NaT /\ y.WORK_DATE = NaT
                           /\ StrLess(x.ECS_CODE_FULL, y.ECS_CODE_FULL)
                     \/ x.WORK_DATE # NaT /\ y.WORK_DATE # NaT
                           /\ \/ DateLess(x.WORK_DATE, y.WORK_DATE)
                              \/ x.WORK_DATE = y.WORK_DATE
                                    /\ StrLess(x.ECS_CODE_FULL, y.ECS_CODE_FULL)
        /\ \A k \in 1..Len(updated) :
              (\E j \in 1..Len(master_df) :
                  /\ master_df[j].ECS_CODE_FULL = updated[k].ECS_CODE_FULL
                  /\ to_date(master_df[j].WORK_DATE) = updated[k].WORK_DATE)
              => updated[k].SOURCE_FILE # "new.docx"

\* C9 witness: a new row has the key of the second ledger row, whose cell held a
\* timestamp; the ledger row is kept and sorts before the first ledger row
C9_Witness ==
    /\ pc = "merged"
    /\ Len(master_df) = 2
    /\ Len(master_df[2].WORK_DATE) = 4
    /\ Len(new_df) = 1
    /\ dedup_key(Combined[3]) = dedup_key(Combined[2])
    /\ updated = <<Combined[2], Combined[1]>>

\* C11: merging the same new rows into the result of the merge gives that
\* result again, the same rows in the same order; and when the documents are
\* processed again with the saved workbook as master, the workbook's rows stay
\* as they are and the net added count is 0.
C11_ReingestIdempotent ==
    [][ pc = "merged" =>
          /\ append_and_dedup(updated, new_df) = updated
          /\ updated' = updated
          /\ delta(master_df', updated') = 0 ]_vars

\* C11 witness: two new rows with different keys entered a ledger of one row
\* with yet another key, and were ingested a second time
C11_Witness ==
    /\ pc = "remerged"
    /\ Len(master_df) = 3
    /\ Len(new_df) = 2
    /\ new_df[1].INGESTED_AT = 2
    /\ dedup_key(new_df[1]) # dedup_key(new_df[2])
    /\ Cardinality({k \in 1..3 : updated[k].SOURCE_FILE = "new.docx"
                                   /\ updated[k].INGESTED_AT = 1}) = 2

---------------------------------------------------------------------------
(* App.process: the batch                                                  *)

\* the most documents of a batch
MaxDocs == 3

\* a selected file: its base name, whether Document(p) can open it, and the text
\* extract_text_from_docx returns for it
D_A ==
    [name |-> "a.docx", readable |-> TRUE,
     text |-> T_7thJanuary2023 \o <<"\n">> \o T_SupJohn \o <<"\n">> \o
              W_HNX \o <<" ">> \o W_2292 \o <<" ">> \o W_0031]
D_B ==
    [name |-> "b.docx", readable |-> TRUE,
     text |-> T_Date \o <<"\n">> \o T_Numeric \o <<"\n">> \o W_hk \o <<" ">> \o W_2292]
D_Feb ==
    [name |-> "c.docx", readable |-> TRUE,
     text |-> T_29February \o <<"\n">> \o W_HNX \o <<" ">> \o W_5555]
D_NoCodes ==
    [name |-> "d.docx", readable |-> TRUE,
     text |-> W_blah \o <<" ">> \o W_2292]
D_Corrupt ==
    [name |-> "e.docx", readable |-> FALSE, text |-> <<>>]

Docs == {D_A, D_B, D_Feb, D_NoCodes, D_Corrupt}

\* a master workbook with one row, dated by a timestamp cell
OldLedger ==
    << [ECS_CODE_FULL |-> W_HNX \o W_2292, ECS_BASE |-> W_HNX, ITEM |-> W_2292,
        WORK_DATE |-> <<2023, 1, 7, 0>>, SUPERVISOR |-> <<>>, SUPERINTENDENT |-> <<>>,
        SOURCE_FILE |-> "old.docx", INGESTED_AT |-> 0] >>

\* lines 132-151: files are selected, the master is read, nothing is processed
InitBatch ==
    /\ pc = "open"
    /\ docx_paths \in SeqsUpTo(Docs, MaxDocs) \ {<<>>}
    /\ assumed_year \in AssumedYears
    /\ master_df \in {<<>>, OldLedger}
    /\ done_docs = 0
    /\ all_new = <<>>
    /\ errors = 0
    /\ log = <<>>
    /\ new_df = <<>>
    /\ updated = <<>>
    /\ full_text = <<>>
    /\ IdleRows /\ IdleMeta

\* the document of the current iteration
doc == docx_paths[done_docs + 1]

\* lines 154-158: the next file is logged and opened; its text is extracted, or
\* Document(p) raises
OpenDocument ==
    /\ pc = "open"
    /\ done_docs < Len(docx_paths)
    /\ log' = Append(log, <<"processing", doc.name>>)
    /\ pc' = IF doc.readable THEN "meta" ELSE "raised"
    /\ full_text' = doc.text
    /\ zone' = <<>> /\ matches' = <<>> /\ i' = 0 /\ items' = <<>> /\ seen' = {}
    /\ rows' = <<>>
    /\ supervisor' = <<>> /\ superintendent' = <<>> /\ work_date' = <<>>
    /\ UNCHANGED <<normalized, assumed_year, docx_paths, done_docs, all_new, errors, mergeVars>>

\* lines 166-181: the frame of the rows of one document, ingested at time now
df_new(rs, meta, name, now) ==
    [k \in 1..Len(rs) |->
        [ECS_CODE_FULL |-> rs[k][1] \o rs[k][2], ECS_BASE |-> rs[k][1], ITEM |-> rs[k][2],
         WORK_DATE |-> meta.work_date, SUPERVISOR |-> meta.supervisor,
         SUPERINTENDENT |-> meta.superintendent, SOURCE_FILE |-> name, INGESTED_AT |-> now]]

\* lines 162-164: no rows, a warning, the next file
WarnNoRows ==
    /\ pc = "done"
    /\ rows = <<>>
    /\ log' = Append(log, <<"warning", doc.name>>)
    /\ done_docs' = done_docs + 1
    /\ pc' = "open"
    /\ UNCHANGED <<full_text, normalized, rowVars, metaVars, docx_paths, all_new, errors,
                   mergeVars>>

\* lines 166-182: the rows of the document are appended to all_new
Collect ==
    /\ pc = "done"
    /\ rows # <<>>
    /\ all_new' = Append(all_new,
                         df_new(rows, [work_date |-> work_date, supervisor |-> supervisor,
                                       superintendent |-> superintendent],
                                doc.name, done_docs + 1))
    /\ done_docs' = done_docs + 1
    /\ pc' = "open"
    /\ UNCHANGED <<full_text, normalized, rowVars, metaVars, docx_paths, errors, log,
                   mergeVars>>

\* the handler ending the loop at the first exception
HandleErrorAndStop ==
    /\ pc = "raised"
    /\ errors' = errors + 1
    /\ log' = Append(log, <<"error", doc.name>>)
    /\ done_docs' = Len(docx_paths)
    /\ pc' = "open"
    /\ UNCHANGED <<full_text, normalized, rowVars, metaVars, docx_paths, all_new, mergeVars>>

\* lines 184-186: the exception of this document is counted and logged, the loop
\* goes on
HandleError ==
    /\ pc = "raised"
    /\ errors' = errors + 1
    /\ log' = Append(log, <<"error", doc.name>>)
    /\ done_docs' = done_docs + 1
    /\ pc' = "open"
    /\ UNCHANGED <<full_text, normalized, rowVars, metaVars, docx_paths, all_new, mergeVars>>

\* pd.concat(frames, ignore_index=True)
RECURSIVE concat(_)
concat(frames) ==
    IF frames = <<>> THEN <<>> ELSE frames[1] \o concat(Tail(frames))

\* lines 188-193: no document gave rows, nothing is merged
NothingExtracted ==
    /\ pc = "open"
    /\ done_docs = Len(docx_paths)
    /\ all_new = <<>>
    /\ pc' = "no_rows"
    /\ UNCHANGED <<full_text, normalized, rowVars, metaVars, batchVars, mergeVars>>

\* lines 195-196
MergeNew ==
    /\ pc = "open"
    /\ done_docs = Len(docx_paths)
    /\ all_new # <<>>
    /\ new_df' = concat(all_new)
    /\ updated' = append_and_dedup(master_df, new_df')
    /\ pc' = "saved"
    /\ UNCHANGED <<full_text, normalized, rowVars, metaVars, batchVars, master_df>>

NextBatch ==
    \/ OpenDocument
    \/ FindSignatures \/ PrimaryDate \/ FallbackDate \/ LastResort
    \/ ClipZone \/ NextMatch \/ ReturnRows
    \/ WarnNoRows \/ Collect \/ HandleError
    \/ NothingExtracted \/ MergeNew

SpecBatch == InitBatch /\ [][NextBatch]_vars

---------------------------------------------------------------------------
(* Properties of the batch                                                 *)

\* the primary pattern matches in t a day, month and year that are no calendar date
InvalidPrimaryDate(t, year) ==
    LET md == PrimarySearch(t)
    IN  /\ md.ok
        /\ ~IsCalendarDate(IF md.g3 # <<>> THEN DecimalValue(md.g3) ELSE year,
                           MonthNumber(md.g2), DecimalValue(md.g1))

\* C7: a primary match that is no calendar date makes extract_metadata raise,
\* with no work date from the fallback or from 1 January; the handler then
\* goes to the next document with all_new as it was, so no frame of all_new
\* stems from such a document.
C7_InvalidDateFailsDocument ==
    [][ /\ (pc = "date" /\ InvalidPrimaryDate(full_text, assumed_year))
            => (pc' = "raised" /\ work_date' = <<>> /\ all_new' = all_new)
        /\ pc = "raised"
            => (pc' = "open" /\ all_new' = all_new /\ done_docs' = done_docs + 1)
        /\ \A k \in 1..Len(all_new') : \A d \in Docs :
              (d.name = all_new'[k][1].SOURCE_FILE)
              => ~InvalidPrimaryDate(d.text, assumed_year) ]_vars

\* C7 witness: "29 February" in 2025 between two good documents, after the merge
C7_Witness ==
    /\ pc = "saved"
    /\ assumed_year = 2025
    /\ docx_paths = <<D_B, D_Feb, D_A>>
    /\ errors = 1
    /\ Len(all_new) = 2
    /\ Len(new_df) = 3

\* document d fails: it cannot be opened or extract_metadata raises
Fails(d) == ~d.readable \/ Raised \in date_outcomes(d.text, assumed_year)

\* the frame document number k contributes: its rows with its metadata, or none
\* when it fails
FrameOf(k) ==
    LET d == docx_paths[k]
        o == CHOOSE x \in date_outcomes(d.text, assumed_year) : TRUE
    IN  IF Fails(d) THEN <<>>
        ELSE df_new(extract_ecs_rows(d.text),
                    [work_date |-> o.date,
                     supervisor |-> signature_name(d.text, L_Supervisor),
                     superintendent |-> signature_name(d.text, L_Superintendent)],
                    d.name, k)

\* the frames of the first n documents, in batch order
RECURSIVE FramesUpTo(_)
FramesUpTo(n) ==
    IF n = 0 THEN <<>> ELSE FramesUpTo(n - 1) \o FrameOf(n)

\* the log entries of the first n documents
RECURSIVE LogUpTo(_)
LogUpTo(n) ==
    IF n = 0 THEN <<>>
    ELSE LET d == docx_paths[n]
         IN  LogUpTo(n - 1) \o <<<<"processing", d.name>>>> \o
             (IF Fails(d) THEN <<<<"error", d.name>>>>
              ELSE IF FrameOf(n) = <<>> THEN <<<<"warning", d.name>>>>
              ELSE <<>>)

\* C8: between two documents, all_new holds the frames of the documents so far
\* that neither failed nor were without rows, in batch order, whatever came
\* before; each failing document is one error, each document without rows one
\* warning and no error; the loop ends only after the last document, and the
\* merge is handed the concatenation.
C8_FailuresIsolated ==
    /\ pc = "open" =>
          /\ concat(all_new) = FramesUpTo(done_docs)
          /\ \A k \in 1..Len(all_new) : all_new[k] # <<>>
          /\ errors = Cardinality({k \in 1..done_docs : Fails(docx_paths[k])})
          /\ log = LogUpTo(done_docs)
    /\ pc \in {"saved", "no_rows"} =>
          /\ done_docs = Len(docx_paths)
          /\ concat(all_new) = FramesUpTo(Len(docx_paths))
          /\ log = LogUpTo(Len(docx_paths))
    /\ pc = "saved" => new_df = FramesUpTo(Len(docx_paths)) /\ new_df # <<>>
    /\ pc = "no_rows" => new_df = <<>> /\ updated = <<>>

\* C8 witness: a document without rows, then one that cannot be opened, then a
\* good one, whose rows alone reach the merge
C8_Witness ==
    /\ pc = "saved"
    /\ docx_paths = <<D_NoCodes, D_Corrupt, D_A>>
    /\ errors = 1
    /\ log = << <<"processing", "d.docx">>, <<"warning", "d.docx">>,
                <<"processing", "e.docx">>, <<"error", "e.docx">>,
                <<"processing", "a.docx">> >>
    /\ Len(new_df) = 2
    /\ new_df[1].SOURCE_FILE = "a.docx"

====
